---- MODULE Spec2Model ----
(***************************************************************************)
(* A model of the HD44780 character-LCD driver: the two buses (4-bit GPIO  *)
(* and I2C expander), the controller with its three mode bytes, and the    *)
(* cursor-tracking character display built on top of the controller.       *)
(*                                                                         *)
(* Every method of the driver is an operator on a machine record m that    *)
(* holds the fields of the objects and the outputs of the call in          *)
(* progress; an action runs one whole call and commits the record.         *)
(***************************************************************************)
EXTENDS Integers, Sequences, FiniteSets

\* ------------------------------------------------------------------------
\* Bounds of the model
\* ------------------------------------------------------------------------
MaxModes == 2       \* longest list of mode setters handed to one call
MaxMsgLen == 4      \* longest message handed to Message
MaxShortMsgLen == 2 \* longest message where SetCursor is exercised as well
MaxDirFault == 8    \* latest transport call of a construction that may fail
MaxWriteFault == 21 \* latest transport call of any other operation that may fail
MaxRowArg == 5      \* largest row handed to SetCursor
MaxModeFault == 46  \* latest transport call of a SetMode that may fail
MaxOpFault == 84    \* latest transport call of any operation of SpecFault that may fail
MaxFaultMsgLen == 3  \* longest message handed to a Message that may fail
MaxMsgFault == 76   \* latest transport call of a Message that may fail

\* ------------------------------------------------------------------------
\* Bytes
\* ------------------------------------------------------------------------
Byte == 0..255

Bit(b, i) == (b \div (2 ^ i)) % 2

\* a | b on bytes
Or8(a, b) ==
  LET f(i) == IF Bit(a, i) = 1 \/ Bit(b, i) = 1 THEN 2 ^ i ELSE 0
  IN f(0) + f(1) + f(2) + f(3) + f(4) + f(5) + f(6) + f(7)

\* a &^ b on bytes (Go's a & ^b)
AndNot8(a, b) ==
  LET f(i) == IF Bit(a, i) = 1 /\ Bit(b, i) = 0 THEN 2 ^ i ELSE 0
  IN f(0) + f(1) + f(2) + f(3) + f(4) + f(5) + f(6) + f(7)

\* a << k on bytes
Shl8(a, k) == (a * (2 ^ k)) % 256

\* byte(x) of an int
ToByte(x) == x % 256

\* ------------------------------------------------------------------------
\* Constants of the driver
\* ------------------------------------------------------------------------
Low == 0
High == 1

lcdInitByte == 51
lcdInit4bit == 50

lcdClearDisplay == 1
lcdReturnHome == 2
lcdCursorShift == 16
lcdSetDDRamAddr == 128

lcdDisplayMove == 8
lcdMoveLeft == 0
lcdMoveRight == 4

lcdSetEntryMode == 4
lcdEntryIncrement == 2
lcdEntryShiftOn == 1

lcdSetDisplayMode == 8
lcdDisplayOn == 4
lcdCursorOn == 2
lcdBlinkOn == 1

lcdSetFunctionMode == 32
lcd8BitMode == 16
lcd2Line == 8
lcd5x10Dots == 4

i2cAddr == 0

NewlineByte == 10

MJKDZPinMap ==
  [RS |-> 6, RW |-> 5, EN |-> 4, D4 |-> 0, D5 |-> 1, D6 |-> 2, D7 |-> 3,
   Backlight |-> 7]

PCF8574PinMap ==
  [RS |-> 0, RW |-> 1, EN |-> 2, D4 |-> 4, D5 |-> 5, D6 |-> 6, D7 |-> 7,
   Backlight |-> 3]

\* The seven lines of the 4-bit bus, in the order the driver lists them.
PinOrder == <<"RS", "EN", "D4", "D5", "D6", "D7", "Backlight">>
AllPins == {PinOrder[i] : i \in 1..7}
SixPins == AllPins \ {"Backlight"}

\* ------------------------------------------------------------------------
\* State
\* ------------------------------------------------------------------------
VARIABLES
  pc,         \* "new" | "controller" | "display" | "generic" | "failed" | "panicked" | "closed"
  bus,        \* the HD44780Bus value: kind, owned lines, pin map, backlight
  eMode,      \* HD44780.eMode
  dMode,      \* HD44780.dMode
  fMode,      \* HD44780.fMode
  Cols,       \* CharacterDisplay.Cols
  Rows,       \* CharacterDisplay.Rows
  p,          \* CharacterDisplay.p: [col, row]
  pinDir,     \* direction of each line, as the line records it
  pinClosed,  \* whether each line has been closed, as the line records it
  wire,       \* transport calls of the last operation, in order
  calls,      \* bus Write calls of the last operation: [rs, data]
  log,        \* display-level events of the last operation
  last,       \* the last operation and its arguments
  err,        \* its result: "nil" | "error" | "panic"
  pending     \* TRUE while the result of a call waits for the caller

vars ==
  <<pc, bus, eMode, dMode, fMode, Cols, Rows, p, pinDir, pinClosed, wire,
    calls, log, last, err, pending>>

NoBus == [kind |-> "none", pins |-> {}, PinMap |-> MJKDZPinMap, Backlight |-> FALSE]


\* The machine record of a call in progress: the objects' fields, the
\* outputs produced so far, the result so far, the number n of transport
\* calls made so far and the index fail of the transport call that fails
\* (0: none fails).
Cur(f) ==
  [bus |-> bus, eMode |-> eMode, dMode |-> dMode, fMode |-> fMode,
   Cols |-> Cols, Rows |-> Rows, col |-> p.col, row |-> p.row,
   pinDir |-> pinDir, pinClosed |-> pinClosed,
   wire |-> <<>>, calls |-> <<>>, log |-> <<>>, err |-> "nil",
   n |-> 0, fail |-> f]

Ok(m) == m.err = "nil"

\* `if err != nil { return err }` after a call that left the machine m1:
\* the rest of the method runs only when the call succeeded.
Then(m1, Rest(_)) == IF Ok(m1) THEN Rest(m1) ELSE m1

\* ------------------------------------------------------------------------
\* The digital lines and the I2C device (the collaborators of the buses)
\* ------------------------------------------------------------------------

\* One call of a method of a line. A nil line faults; the call numbered
\* m.fail returns an error and has no effect; any other call takes effect.
PinCall(m, line, op, v) ==
  IF line \notin m.bus.pins THEN [m EXCEPT !.err = "panic"]
  ELSE IF m.n + 1 = m.fail THEN [m EXCEPT !.n = m.n + 1, !.err = "error"]
  ELSE
    LET m1 == [m EXCEPT !.n = m.n + 1,
                        !.wire = Append(m.wire, [line |-> line, op |-> op, v |-> v])]
    IN CASE op = "W" -> m1
         [] op = "D" -> [m1 EXCEPT !.pinDir[line] = "out"]
         [] op = "C" -> [m1 EXCEPT !.pinClosed[line] = TRUE]

PinWrite(m, line, v) == PinCall(m, line, "W", v)
PinSetDirection(m, line) == PinCall(m, line, "D", 1)
PinClose(m, line) == PinCall(m, line, "C", 0)

\* One call of WriteByte or Close of the I2C device.
I2CCall(m, op, addr, b) ==
  IF m.n + 1 = m.fail THEN [m EXCEPT !.n = m.n + 1, !.err = "error"]
  ELSE [m EXCEPT !.n = m.n + 1,
                 !.wire = Append(m.wire,
                            [line |-> "I2C", op |-> op, v |-> b, addr |-> addr])]

\* ------------------------------------------------------------------------
\* GPIO4BitBus
\* ------------------------------------------------------------------------
\* pulseEnable dropping the errors of its first two writes.
GPIO4BitBusPulseEnableUnchecked(m) ==
  PinWrite([PinWrite([PinWrite(m, "EN", Low) EXCEPT !.err = "nil"], "EN", High)
            EXCEPT !.err = "nil"], "EN", Low)

GPIO4BitBusPulseEnable(m) ==
  Then(Then(PinWrite(m, "EN", Low),
            LAMBDA m1 : PinWrite(m1, "EN", High)),
       LAMBDA m2 : PinWrite(m2, "EN", Low))

\* Write with the two halves of the byte exchanged.
GPIO4BitBusWriteStepLowFirst(m, i, rs, data) ==
  CASE i = 1 -> PinWrite(m, "RS", IF rs THEN High ELSE Low)
    [] i = 2 -> PinWrite(m, "D4", Bit(data, 0))
    [] i = 3 -> PinWrite(m, "D5", Bit(data, 1))
    [] i = 4 -> PinWrite(m, "D6", Bit(data, 2))
    [] i = 5 -> PinWrite(m, "D7", Bit(data, 3))
    [] i = 6 -> GPIO4BitBusPulseEnable(m)
    [] i = 7 -> PinWrite(m, "D4", Bit(data, 4))
    [] i = 8 -> PinWrite(m, "D5", Bit(data, 5))
    [] i = 9 -> PinWrite(m, "D6", Bit(data, 6))
    [] i = 10 -> PinWrite(m, "D7", Bit(data, 7))
    [] i = 11 -> GPIO4BitBusPulseEnable(m)

\* The eleven steps of Write, each a function of the machine.
GPIO4BitBusWriteStep(m, i, rs, data) ==
  CASE i = 1 -> PinWrite(m, "RS", IF rs THEN High ELSE Low)
    [] i = 2 -> PinWrite(m, "D4", Bit(data, 4))
    [] i = 3 -> PinWrite(m, "D5", Bit(data, 5))
    [] i = 4 -> PinWrite(m, "D6", Bit(data, 6))
    [] i = 5 -> PinWrite(m, "D7", Bit(data, 7))
    [] i = 6 -> GPIO4BitBusPulseEnable(m)
    [] i = 7 -> PinWrite(m, "D4", Bit(data, 0))
    [] i = 8 -> PinWrite(m, "D5", Bit(data, 1))
    [] i = 9 -> PinWrite(m, "D6", Bit(data, 2))
    [] i = 10 -> PinWrite(m, "D7", Bit(data, 3))
    [] i = 11 -> GPIO4BitBusPulseEnable(m)

RECURSIVE GPIO4BitBusWriteFrom(_, _, _, _)
GPIO4BitBusWriteFrom(m, i, rs, data) ==
  IF i > 11 THEN m
  ELSE Then(GPIO4BitBusWriteStep(m, i, rs, data),
            LAMBDA m1 : GPIO4BitBusWriteFrom(m1, i + 1, rs, data))

GPIO4BitBusWrite(m, rs, data) == GPIO4BitBusWriteFrom(m, 1, rs, data)

GPIO4BitBusBacklightOff(m) ==
  IF "Backlight" \in m.bus.pins THEN PinWrite(m, "Backlight", High) ELSE m

GPIO4BitBusBacklightOn(m) ==
  IF "Backlight" \in m.bus.pins THEN PinWrite(m, "Backlight", Low) ELSE m

\* Close going on to the next line after a failed Close.
RECURSIVE GPIO4BitBusCloseFromKeepGoing(_, _)
GPIO4BitBusCloseFromKeepGoing(m, i) ==
  IF i > 7 THEN m
  ELSE GPIO4BitBusCloseFromKeepGoing(
         [PinClose(m, PinOrder[i]) EXCEPT !.err = "nil"], i + 1)

\* Close calls Close on all seven fields in order, nil or not.
RECURSIVE GPIO4BitBusCloseFrom(_, _)
GPIO4BitBusCloseFrom(m, i) ==
  IF i > 7 THEN m
  ELSE Then(PinClose(m, PinOrder[i]),
            LAMBDA m1 : GPIO4BitBusCloseFrom(m1, i + 1))

GPIO4BitBusClose(m) == GPIO4BitBusCloseFrom(m, 1)

\* ------------------------------------------------------------------------
\* I2CBus
\* ------------------------------------------------------------------------
I2CBusPulseEnable(m, data) ==
  Then(Then(I2CCall(m, "W", i2cAddr, data),
            LAMBDA m1 : I2CCall(m1, "W", i2cAddr,
                                Or8(data, Shl8(1, m.bus.PinMap.EN)))),
       LAMBDA m2 : I2CCall(m2, "W", i2cAddr, data))

\* Write sending the low half of the byte first.
I2CBusWriteLowFirst(m, rs, data) ==
  LET pm == m.bus.PinMap
      instructionHigh ==
        Or8(Or8(Shl8(Bit(data, 4), pm.D4), Shl8(Bit(data, 5), pm.D5)),
            Or8(Shl8(Bit(data, 6), pm.D6), Shl8(Bit(data, 7), pm.D7)))
      instructionLow ==
        Or8(Or8(Shl8(Bit(data, 0), pm.D4), Shl8(Bit(data, 1), pm.D5)),
            Or8(Shl8(Bit(data, 2), pm.D6), Shl8(Bit(data, 3), pm.D7)))
      flags(ins) ==
        LET a == IF rs THEN Or8(ins, Shl8(1, pm.RS)) ELSE ins
        IN IF m.bus.Backlight THEN Or8(a, Shl8(1, pm.Backlight)) ELSE a
  IN Then(I2CBusPulseEnable(m, flags(instructionLow)),
          LAMBDA m1 : I2CBusPulseEnable(m1, flags(instructionHigh)))

I2CBusWrite(m, rs, data) ==
  LET pm == m.bus.PinMap
      instructionHigh ==
        Or8(Or8(Shl8(Bit(data, 4), pm.D4), Shl8(Bit(data, 5), pm.D5)),
            Or8(Shl8(Bit(data, 6), pm.D6), Shl8(Bit(data, 7), pm.D7)))
      instructionLow ==
        Or8(Or8(Shl8(Bit(data, 0), pm.D4), Shl8(Bit(data, 1), pm.D5)),
            Or8(Shl8(Bit(data, 2), pm.D6), Shl8(Bit(data, 3), pm.D7)))
      flags(ins) ==
        LET a == IF rs THEN Or8(ins, Shl8(1, pm.RS)) ELSE ins
        IN IF m.bus.Backlight THEN Or8(a, Shl8(1, pm.Backlight)) ELSE a
  IN Then(I2CBusPulseEnable(m, flags(instructionHigh)),
          LAMBDA m1 : I2CBusPulseEnable(m1, flags(instructionLow)))

I2CBusBacklightOff(m) == I2CBusWrite([m EXCEPT !.bus.Backlight = FALSE], FALSE, 0)

\* BacklightOn storing the state after the write instead of before it.
I2CBusBacklightOnLate(m) ==
  [I2CBusWrite(m, FALSE, 0) EXCEPT !.bus.Backlight = TRUE]

I2CBusBacklightOn(m) == I2CBusWrite([m EXCEPT !.bus.Backlight = TRUE], FALSE, 0)

I2CBusClose(m) == I2CCall(m, "C", i2cAddr, 0)

\* ------------------------------------------------------------------------
\* HD44780Bus: the bus as the controller sees it
\* ------------------------------------------------------------------------
BusWrite(m, rs, data) ==
  IF m.bus.kind = "gpio"
  THEN GPIO4BitBusWrite(
         [m EXCEPT !.calls = Append(m.calls, [rs |-> rs, data |-> data])], rs, data)
  ELSE I2CBusWrite(
         [m EXCEPT !.calls = Append(m.calls, [rs |-> rs, data |-> data])], rs, data)

BusBacklightOff(m) ==
  IF m.bus.kind = "gpio" THEN GPIO4BitBusBacklightOff(m) ELSE I2CBusBacklightOff(m)

BusBacklightOn(m) ==
  IF m.bus.kind = "gpio" THEN GPIO4BitBusBacklightOn(m) ELSE I2CBusBacklightOn(m)

BusClose(m) ==
  IF m.bus.kind = "gpio" THEN GPIO4BitBusClose(m) ELSE I2CBusClose(m)

\* ------------------------------------------------------------------------
\* The 4-bit bus emulator: a decoder fed by one queue per line
\* ------------------------------------------------------------------------

\* The values written to a line, in order: the contents of its queue.
Values(w, line) ==
  LET q == SelectSeq(w, LAMBDA e : e.line = line /\ e.op = "W")
  IN [i \in 1..Len(q) |-> q[i].v]

\* Reading `<-en == Low && <-en == High && <-en == Low` from queue q: the
\* conjunction stops reading at its first false conjunct and blocks on an
\* empty queue.
ReadPulse(q) ==
  IF Len(q) = 0 THEN [st |-> "blocked", rest |-> q]
  ELSE IF q[1] # Low THEN [st |-> "no", rest |-> SubSeq(q, 2, Len(q))]
  ELSE IF Len(q) = 1 THEN [st |-> "blocked", rest |-> <<>>]
  ELSE IF q[2] # High THEN [st |-> "no", rest |-> SubSeq(q, 3, Len(q))]
  ELSE IF Len(q) = 2 THEN [st |-> "blocked", rest |-> <<>>]
  ELSE [st |-> IF q[3] = Low THEN "ok" ELSE "no", rest |-> SubSeq(q, 4, Len(q))]

\* The emulator's loop on queues e.en, e.rs, e.d4..e.d7; the result is what
\* it has put on its instructions queue when it blocks.
RECURSIVE EmulatorRun(_)
EmulatorRun(e) ==
  LET r1 == ReadPulse(e.en)
      hi == r1.st = "ok"
      canHi == Len(e.rs) > 0 /\ Len(e.d4) > 0 /\ Len(e.d5) > 0
               /\ Len(e.d6) > 0 /\ Len(e.d7) > 0
  IN IF r1.st = "blocked" \/ (hi /\ ~canHi) THEN e.out
     ELSE
       LET rs == IF hi THEN Head(e.rs) ELSE 0
           b1 == IF hi
                 THEN Or8(Or8(Shl8(Head(e.d4), 4), Shl8(Head(e.d5), 5)),
                          Or8(Shl8(Head(e.d6), 6), Shl8(Head(e.d7), 7)))
                 ELSE 0
           e1 == IF hi
                 THEN [e EXCEPT !.en = r1.rest, !.rs = Tail(e.rs),
                                !.d4 = Tail(e.d4), !.d5 = Tail(e.d5),
                                !.d6 = Tail(e.d6), !.d7 = Tail(e.d7)]
                 ELSE [e EXCEPT !.en = r1.rest]
           r2 == ReadPulse(e1.en)
           canLo == Len(e1.d4) > 0 /\ Len(e1.d5) > 0 /\ Len(e1.d6) > 0
                    /\ Len(e1.d7) > 0
       IN IF r2.st = "blocked" \/ (r2.st = "ok" /\ ~canLo) THEN e.out
          ELSE IF r2.st = "no" THEN EmulatorRun([e1 EXCEPT !.en = r2.rest])
          ELSE
            LET b2 == Or8(b1, Or8(Or8(Head(e1.d4), Shl8(Head(e1.d5), 1)),
                                  Or8(Shl8(Head(e1.d6), 2), Shl8(Head(e1.d7), 3))))
            IN EmulatorRun([e1 EXCEPT !.en = r2.rest,
                                      !.d4 = Tail(e1.d4), !.d5 = Tail(e1.d5),
                                      !.d6 = Tail(e1.d6), !.d7 = Tail(e1.d7),
                                      !.out = Append(e1.out, [rs |-> rs, data |-> b2])])

\* The instructions the emulator captures from the line writes w.
newGPIO4BitBusEmulator(w) ==
  EmulatorRun([en |-> Values(w, "EN"), rs |-> Values(w, "RS"),
               d4 |-> Values(w, "D4"), d5 |-> Values(w, "D5"),
               d6 |-> Values(w, "D6"), d7 |-> Values(w, "D7"), out |-> <<>>])


\* ------------------------------------------------------------------------
\* Mode setters
\* ------------------------------------------------------------------------
EntrySetters == {"EntryDecrement", "EntryIncrement", "EntryShiftOff", "EntryShiftOn"}
DisplaySetters ==
  {"DisplayOff", "DisplayOn", "CursorOff", "CursorOn", "BlinkOff", "BlinkOn"}
FunctionSetters ==
  {"FourBitMode", "EightBitMode", "OneLine", "TwoLine", "Dots5x8", "Dots5x10"}
ModeSetters == EntrySetters \cup DisplaySetters \cup FunctionSetters

EntryDecrement(m) == [m EXCEPT !.eMode = AndNot8(m.eMode, lcdEntryIncrement)]
EntryIncrement(m) == [m EXCEPT !.eMode = Or8(m.eMode, lcdEntryIncrement)]
EntryShiftOff(m) == [m EXCEPT !.eMode = AndNot8(m.eMode, lcdEntryShiftOn)]
EntryShiftOn(m) == [m EXCEPT !.eMode = Or8(m.eMode, lcdEntryShiftOn)]

DisplayOff(m) == [m EXCEPT !.dMode = AndNot8(m.dMode, lcdDisplayOn)]
DisplayOn(m) == [m EXCEPT !.dMode = Or8(m.dMode, lcdDisplayOn)]
CursorOff(m) == [m EXCEPT !.dMode = AndNot8(m.dMode, lcdCursorOn)]
CursorOn(m) == [m EXCEPT !.dMode = Or8(m.dMode, lcdCursorOn)]
BlinkOff(m) == [m EXCEPT !.dMode = AndNot8(m.dMode, lcdBlinkOn)]
BlinkOn(m) == [m EXCEPT !.dMode = Or8(m.dMode, lcdBlinkOn)]

FourBitMode(m) == [m EXCEPT !.fMode = AndNot8(m.fMode, lcd8BitMode)]
EightBitMode(m) == [m EXCEPT !.fMode = Or8(m.fMode, lcd8BitMode)]
OneLine(m) == [m EXCEPT !.fMode = AndNot8(m.fMode, lcd2Line)]
TwoLine(m) == [m EXCEPT !.fMode = Or8(m.fMode, lcd2Line)]
Dots5x8(m) == [m EXCEPT !.fMode = AndNot8(m.fMode, lcd5x10Dots)]
\* Dots5x10 setting the bit of another mode byte's flag.
Dots5x10WrongFlag(m) == [m EXCEPT !.fMode = Or8(m.fMode, lcdCursorOn)]

Dots5x10(m) == [m EXCEPT !.fMode = Or8(m.fMode, lcd5x10Dots)]

\* Calling the mode setter named s.
ModeSetter(m, s) ==
  CASE s = "EntryDecrement" -> EntryDecrement(m)
    [] s = "EntryIncrement" -> EntryIncrement(m)
    [] s = "EntryShiftOff" -> EntryShiftOff(m)
    [] s = "EntryShiftOn" -> EntryShiftOn(m)
    [] s = "DisplayOff" -> DisplayOff(m)
    [] s = "DisplayOn" -> DisplayOn(m)
    [] s = "CursorOff" -> CursorOff(m)
    [] s = "CursorOn" -> CursorOn(m)
    [] s = "BlinkOff" -> BlinkOff(m)
    [] s = "BlinkOn" -> BlinkOn(m)
    [] s = "FourBitMode" -> FourBitMode(m)
    [] s = "EightBitMode" -> EightBitMode(m)
    [] s = "OneLine" -> OneLine(m)
    [] s = "TwoLine" -> TwoLine(m)
    [] s = "Dots5x8" -> Dots5x8(m)
    [] s = "Dots5x10" -> Dots5x10(m)

\* ------------------------------------------------------------------------
\* HD44780: the controller
\* ------------------------------------------------------------------------
WriteChar(m, value) == BusWrite(m, TRUE, value)

WriteInstruction(m, value) == BusWrite(m, FALSE, value)

\* lcdInit without its second instruction.
lcdInitOnce(m) == WriteInstruction(m, lcdInitByte)

lcdInit(m) ==
  Then(WriteInstruction(m, lcdInitByte),
       LAMBDA m1 : WriteInstruction(m1, lcdInit4bit))

setEntryMode(m) == WriteInstruction(m, Or8(lcdSetEntryMode, m.eMode))

setDisplayMode(m) == WriteInstruction(m, Or8(lcdSetDisplayMode, m.dMode))

setFunctionMode(m) == WriteInstruction(m, Or8(lcdSetFunctionMode, m.fMode))

RECURSIVE ApplyModes(_, _)
ApplyModes(m, modes) ==
  IF modes = <<>> THEN m ELSE ApplyModes(ModeSetter(m, Head(modes)), Tail(modes))

\* SetMode going on to the next instruction after a failed one.
SetModeNoFailFast(m, modes) ==
  setFunctionMode(
    [setDisplayMode(
       [setEntryMode(ApplyModes(m, modes)) EXCEPT !.err = "nil"])
     EXCEPT !.err = "nil"])

SetMode(m, modes) ==
  Then(Then(setEntryMode(ApplyModes(m, modes)),
            LAMBDA m1 : setDisplayMode(m1)),
       LAMBDA m2 : setFunctionMode(m2))

\* New, on the bus already placed in m.bus.
New(m, modes) ==
  Then(lcdInit([m EXCEPT !.eMode = 0, !.dMode = 0, !.fMode = 0]),
       LAMBDA m1 : SetMode(m1, modes))

RECURSIVE SetDirections(_, _, _)
SetDirections(m, pins, i) ==
  IF i > 7 THEN m
  ELSE IF PinOrder[i] \notin pins THEN SetDirections(m, pins, i + 1)
  ELSE Then(PinSetDirection(m, PinOrder[i]),
            LAMBDA m1 : SetDirections(m1, pins, i + 1))

\* NewGPIO4Bit going on to New whatever SetDirection returned.
NewGPIO4BitUnchecked(m, pins, modes) ==
  LET b == [kind |-> "gpio", pins |-> pins, PinMap |-> MJKDZPinMap,
            Backlight |-> FALSE]
      m1 == SetDirections([m EXCEPT !.bus = b], pins, 1)
  IN New([m1 EXCEPT !.err = "nil"], modes)

\* pins: the lines that are not nil.
NewGPIO4Bit(m, pins, modes) ==
  LET b == [kind |-> "gpio", pins |-> pins, PinMap |-> MJKDZPinMap,
            Backlight |-> FALSE]
  IN Then(SetDirections([m EXCEPT !.bus = b], pins, 1),
          LAMBDA m1 : New(m1, modes))

NewI2C(m, pinMap, modes) ==
  New([m EXCEPT !.bus = [kind |-> "i2c", pins |-> {}, PinMap |-> pinMap,
                         Backlight |-> FALSE]], modes)

HD44780DisplayOff(m) == setDisplayMode(DisplayOff(m))
HD44780DisplayOn(m) == setDisplayMode(DisplayOn(m))
HD44780CursorOff(m) == setDisplayMode(CursorOff(m))
\* CursorOn re-flushing all three mode bytes instead of the display byte.
HD44780CursorOnFlushAll(m) == SetMode(m, <<"CursorOn">>)

HD44780CursorOn(m) == setDisplayMode(CursorOn(m))
HD44780BlinkOff(m) == setDisplayMode(BlinkOff(m))
HD44780BlinkOn(m) == setDisplayMode(BlinkOn(m))

ShiftLeft(m) == WriteInstruction(m, Or8(Or8(lcdCursorShift, lcdDisplayMove), lcdMoveLeft))

ShiftRight(m) == WriteInstruction(m, Or8(Or8(lcdCursorShift, lcdDisplayMove), lcdMoveRight))

HD44780Home(m) == WriteInstruction(m, lcdReturnHome)

HD44780Clear(m) == WriteInstruction(m, lcdClearDisplay)

HD44780SetCursor(m, value) == WriteInstruction(m, Or8(lcdSetDDRamAddr, value))

HD44780Close(m) == BusClose(m)

\* ------------------------------------------------------------------------
\* CharacterDisplay of package hd44780
\* ------------------------------------------------------------------------
DefaultModes ==
  <<"FourBitMode", "OneLine", "Dots5x8", "EntryIncrement", "EntryShiftOff",
    "DisplayOn", "CursorOff", "BlinkOff">>

\* NewCharacterDisplay with the defaults after the caller's setters.
NewCharacterDisplayDefaultsLast(m, pins, cols, rows, modes) ==
  Then(NewGPIO4Bit(m, pins, modes \o DefaultModes),
       LAMBDA m1 : BusBacklightOn([m1 EXCEPT !.Cols = cols, !.Rows = rows,
                                             !.col = 0, !.row = 0]))

\* pins: the keys that are not nil, each already a digital line.
NewCharacterDisplay(m, pins, cols, rows, modes) ==
  Then(NewGPIO4Bit(m, pins, DefaultModes \o modes),
       LAMBDA m1 : BusBacklightOn([m1 EXCEPT !.Cols = cols, !.Rows = rows,
                                             !.col = 0, !.row = 0]))

\* isLeftToRight looking at the increment bit alone.
isLeftToRightIncrementOnly(m) == Bit(m.eMode, 1) = 1

isLeftToRight(m) == Bit(m.eMode, 1) # Bit(m.eMode, 0)

currentPosition(m, col, row) == [m EXCEPT !.col = col, !.row = row]

\* The index into the four-entry table, and the table for the column count.
lcdRowOffsetIndex(row) == IF row > 3 THEN 3 ELSE row

\* The two tables exchanged.
lcdRowOffsetTableSwapped(cols) ==
  IF cols = 16 THEN <<0, 64, 20, 84>> ELSE <<0, 64, 16, 80>>

lcdRowOffsetTable(cols) ==
  IF cols = 16 THEN <<0, 64, 16, 80>> ELSE <<0, 64, 20, 84>>

\* lcdRowOffset faults when the index is outside the table.
lcdRowOffsetFaults(row) == lcdRowOffsetIndex(row) \notin 0..3

lcdRowOffset(cols, row) == lcdRowOffsetTable(cols)[lcdRowOffsetIndex(row) + 1]

\* SetCursor without the clamp of the row.
SetCursorNoClamp(m, col, row) ==
  LET m1 == currentPosition(m, col, row)
  IN IF lcdRowOffsetFaults(row) THEN [m1 EXCEPT !.err = "panic"]
     ELSE
       LET value == ToByte(ToByte(col) + lcdRowOffset(m.Cols, row))
           m2 == [m1 EXCEPT !.log = Append(m1.log,
                     [k |-> "cursor", b |-> value, col |-> col, row |-> row])]
       IN HD44780SetCursor(m2, value)

SetCursor(m, col, row) ==
  LET r == IF row >= m.Rows THEN m.Rows - 1 ELSE row
      m1 == currentPosition(m, col, r)
  IN IF lcdRowOffsetFaults(r) THEN [m1 EXCEPT !.err = "panic"]
     ELSE
       LET value == ToByte(ToByte(col) + lcdRowOffset(m.Cols, r))
           m2 == [m1 EXCEPT !.log = Append(m1.log,
                     [k |-> "cursor", b |-> value, col |-> col, row |-> r])]
       IN HD44780SetCursor(m2, value)

\* Newline going from the last row back to row 0.
NewlineWrapping(m) ==
  LET col == IF isLeftToRight(m) THEN 0 ELSE m.Cols - 1
  IN SetCursor(m, col, (m.row + 1) % m.Rows)

Newline(m) ==
  LET col == IF isLeftToRight(m) THEN 0 ELSE m.Cols - 1
  IN SetCursor(m, col, m.row + 1)

Home(m) == HD44780Home(currentPosition(m, 0, 0))

\* Clear without the move to the last column of a right-to-left display.
ClearNoReposition(m) ==
  Then(HD44780Clear(currentPosition(m, 0, 0)),
       LAMBDA m1 : SetMode(m1, <<>>))

Clear(m) ==
  Then(Then(HD44780Clear(currentPosition(m, 0, 0)),
            LAMBDA m1 : SetMode(m1, <<>>)),
       LAMBDA m2 : IF ~isLeftToRight(m2) THEN SetCursor(m2, m2.Cols - 1, 0)
                   ELSE m2)

\* The end of one turn of the loop of Message: a column off either edge
\* gives a newline.
MessageWrap(m) ==
  IF m.col >= m.Cols \/ m.col < 0 THEN Newline(m) ELSE m

\* After a character is written: the column moves by one.
MessageAdvance(m) ==
  MessageWrap(IF isLeftToRight(m)
              THEN [m EXCEPT !.col = m.col + 1]
              ELSE [m EXCEPT !.col = m.col - 1])

\* Message writing the newline bytes to the controller as well.
RECURSIVE MessageFromWritingNewlines(_, _, _)
MessageFromWritingNewlines(m, message, i) ==
  IF i > Len(message) THEN m
  ELSE
    Then(Then(WriteChar([m EXCEPT !.log = Append(m.log,
                           [k |-> "char", b |-> message[i],
                            col |-> m.col, row |-> m.row])],
                        message[i]),
              LAMBDA m1 : IF message[i] = NewlineByte THEN Newline(m1)
                          ELSE MessageAdvance(m1)),
         LAMBDA m3 : MessageFromWritingNewlines(m3, message, i + 1))

\* Message moving the column for a character before looking at the result of
\* its write.
MessageAdvanceAnyway(m) ==
  IF Ok(m) THEN MessageAdvance(m)
  ELSE IF isLeftToRight(m) THEN [m EXCEPT !.col = m.col + 1]
  ELSE [m EXCEPT !.col = m.col - 1]

RECURSIVE MessageFromAdvancingFirst(_, _, _)
MessageFromAdvancingFirst(m, message, i) ==
  IF i > Len(message) THEN m
  ELSE IF message[i] = NewlineByte
  THEN Then(Newline(m), LAMBDA m1 : MessageFromAdvancingFirst(m1, message, i + 1))
  ELSE
    Then(MessageAdvanceAnyway(
           WriteChar([m EXCEPT !.log = Append(m.log,
                        [k |-> "char", b |-> message[i],
                         col |-> m.col, row |-> m.row])],
                     message[i])),
         LAMBDA m3 : MessageFromAdvancingFirst(m3, message, i + 1))

\* The loop of Message from byte i on.
RECURSIVE MessageFrom(_, _, _)
MessageFrom(m, message, i) ==
  IF i > Len(message) THEN m
  ELSE IF message[i] = NewlineByte
  THEN Then(Newline(m), LAMBDA m1 : MessageFrom(m1, message, i + 1))
  ELSE
    Then(Then(WriteChar([m EXCEPT !.log = Append(m.log,
                           [k |-> "char", b |-> message[i],
                            col |-> m.col, row |-> m.row])],
                        message[i]),
              LAMBDA m1 : MessageAdvance(m1)),
         LAMBDA m3 : MessageFrom(m3, message, i + 1))

Message(m, message) == MessageFrom(m, message, 1)

\* Close of the Backlight field of the display. No constructor sets the
\* field, so it is the nil interface, and a call on it faults.
BacklightBusClose(m) == [m EXCEPT !.err = "panic"]

Close(m) == Then(HD44780Close(m), LAMBDA m1 : BacklightBusClose(m1))


\* ------------------------------------------------------------------------
\* CharacterDisplay of package characterdisplay, on a fault-free Controller
\* ------------------------------------------------------------------------
\* The Controller handed to New: it has m.Cols columns and m.Rows rows,
\* reports the direction of the entry mode m.eMode, never fails, and records
\* the character writes and the set-cursor positions it is given.
ControllerCols(m) == m.Cols

ControllerRows(m) == m.Rows

ControllerIsLeftToRight(m) == isLeftToRight(m)

ControllerWriteChar(m, b) ==
  [m EXCEPT !.log = Append(m.log, [k |-> "char", b |-> b,
                                   col |-> m.col, row |-> m.row])]

ControllerSetCursor(m, col, row) ==
  [m EXCEPT !.log = Append(m.log, [k |-> "cursor", b |-> 0,
                                   col |-> col, row |-> row])]

ControllerHome(m) ==
  [m EXCEPT !.log = Append(m.log, [k |-> "home", b |-> 0, col |-> 0, row |-> 0])]

ControllerClear(m) ==
  [m EXCEPT !.log = Append(m.log, [k |-> "clear", b |-> 0, col |-> 0, row |-> 0])]

setCurrentPosition(m, col, row) == [m EXCEPT !.col = col, !.row = row]

GenericNew(m, cols, rows, ltr) ==
  [m EXCEPT !.Cols = cols, !.Rows = rows,
            !.eMode = IF ltr THEN lcdEntryIncrement ELSE 0,
            !.col = 0, !.row = 0]

\* SetCursor of the generic display without the clamp of the row.
GenericSetCursorNoClamp(m, col, row) ==
  ControllerSetCursor(setCurrentPosition(m, col, row), col, row)

GenericSetCursor(m, col, row) ==
  LET r == IF row >= ControllerRows(m) THEN ControllerRows(m) - 1 ELSE row
  IN ControllerSetCursor(setCurrentPosition(m, col, r), col, r)

GenericNewline(m) ==
  LET col == IF ControllerIsLeftToRight(m) THEN 0 ELSE ControllerCols(m) - 1
  IN GenericSetCursor(m, col, m.row + 1)

GenericHome(m) == ControllerHome(setCurrentPosition(m, 0, 0))

GenericClear(m) ==
  Then(ControllerClear(setCurrentPosition(m, 0, 0)),
       LAMBDA m1 : IF ~ControllerIsLeftToRight(m1)
                   THEN GenericSetCursor(m1, ControllerCols(m1) - 1, 0)
                   ELSE m1)

GenericMessageAdvance(m) ==
  LET m1 == IF ControllerIsLeftToRight(m)
            THEN [m EXCEPT !.col = m.col + 1]
            ELSE [m EXCEPT !.col = m.col - 1]
  IN IF m1.col >= ControllerCols(m1) \/ m1.col < 0 THEN GenericNewline(m1) ELSE m1

RECURSIVE GenericMessageFrom(_, _, _)
GenericMessageFrom(m, message, i) ==
  IF i > Len(message) THEN m
  ELSE IF message[i] = NewlineByte
  THEN Then(GenericNewline(m), LAMBDA m1 : GenericMessageFrom(m1, message, i + 1))
  ELSE
    Then(Then(ControllerWriteChar(m, message[i]),
              LAMBDA m1 : GenericMessageAdvance(m1)),
         LAMBDA m3 : GenericMessageFrom(m3, message, i + 1))

GenericMessage(m, message) == GenericMessageFrom(m, message, 1)


\* ------------------------------------------------------------------------
\* Actions: one call of one operation each
\* ------------------------------------------------------------------------
NoLast ==
  [op |-> "none", data |-> 0, modes |-> <<>>, msg |-> <<>>, col |-> 0,
   row |-> 0, fail |-> 0]

Init ==
  /\ pc = "new"
  /\ bus = NoBus
  /\ eMode = 0
  /\ dMode = 0
  /\ fMode = 0
  /\ Cols = 0
  /\ Rows = 0
  /\ p = [col |-> 0, row |-> 0]
  /\ pinDir = [l \in AllPins |-> "unset"]
  /\ pinClosed = [l \in AllPins |-> FALSE]
  /\ wire = <<>>
  /\ calls = <<>>
  /\ log = <<>>
  /\ last = NoLast
  /\ err = "nil"
  /\ pending = FALSE

\* The state after a call that ended in machine m; a fault ends the program.
Commit(m, l, next) ==
  /\ pc' = IF m.err = "panic" THEN "panicked" ELSE next
  /\ bus' = m.bus
  /\ eMode' = m.eMode
  /\ dMode' = m.dMode
  /\ fMode' = m.fMode
  /\ Cols' = m.Cols
  /\ Rows' = m.Rows
  /\ p' = [col |-> m.col, row |-> m.row]
  /\ pinDir' = m.pinDir
  /\ pinClosed' = m.pinClosed
  /\ wire' = m.wire
  /\ calls' = m.calls
  /\ log' = m.log
  /\ last' = l
  /\ err' = m.err
  /\ pending' = TRUE

\* The caller takes the result of a call: the record of the call is dropped,
\* the objects stay as the call left them.
Return ==
  /\ pending
  /\ pc \in {"controller", "display", "generic"}
  /\ pending' = FALSE
  /\ wire' = <<>>
  /\ calls' = <<>>
  /\ log' = <<>>
  /\ last' = NoLast
  /\ err' = "nil"
  /\ UNCHANGED <<pc, bus, eMode, dMode, fMode, Cols, Rows, p, pinDir, pinClosed>>

HasController == ~pending /\ pc \in {"controller", "display"}
IsController == ~pending /\ pc = "controller"
IsDisplay == ~pending /\ pc = "display"

\* The result of a constructor: the object on success, nothing on failure.
CommitNew(m, l, next) == Commit(m, l, IF Ok(m) THEN next ELSE "failed")

\* Constructors.
DoNew(b, modes, f) ==
  /\ pc = "new"
  /\ CommitNew(New([Cur(f) EXCEPT !.bus = b], modes),
               [NoLast EXCEPT !.op = "New", !.modes = modes, !.fail = f],
               "controller")

DoNewGPIO4Bit(pins, modes, f) ==
  /\ pc = "new"
  /\ CommitNew(NewGPIO4Bit(Cur(f), pins, modes),
               [NoLast EXCEPT !.op = "NewGPIO4Bit", !.modes = modes, !.fail = f],
               "controller")

DoNewI2C(pinMap, modes, f) ==
  /\ pc = "new"
  /\ CommitNew(NewI2C(Cur(f), pinMap, modes),
               [NoLast EXCEPT !.op = "NewI2C", !.modes = modes, !.fail = f],
               "controller")

DoNewCharacterDisplay(pins, cols, rows, modes, f) ==
  /\ pc = "new"
  /\ CommitNew(NewCharacterDisplay(Cur(f), pins, cols, rows, modes),
               [NoLast EXCEPT !.op = "NewCharacterDisplay", !.modes = modes, !.fail = f],
               "display")

\* Operations of the controller.
DoWriteChar(value, f) ==
  /\ HasController
  /\ Commit(WriteChar(Cur(f), value),
            [NoLast EXCEPT !.op = "WriteChar", !.data = value, !.fail = f], pc)

DoWriteInstruction(value, f) ==
  /\ HasController
  /\ Commit(WriteInstruction(Cur(f), value),
            [NoLast EXCEPT !.op = "WriteInstruction", !.data = value, !.fail = f], pc)

DoSetMode(modes, f) ==
  /\ HasController
  /\ Commit(SetMode(Cur(f), modes),
            [NoLast EXCEPT !.op = "SetMode", !.modes = modes, !.fail = f], pc)

DoDisplayOff(f) ==
  /\ HasController
  /\ Commit(HD44780DisplayOff(Cur(f)), [NoLast EXCEPT !.op = "DisplayOff", !.fail = f], pc)

DoDisplayOn(f) ==
  /\ HasController
  /\ Commit(HD44780DisplayOn(Cur(f)), [NoLast EXCEPT !.op = "DisplayOn", !.fail = f], pc)

DoCursorOff(f) ==
  /\ HasController
  /\ Commit(HD44780CursorOff(Cur(f)), [NoLast EXCEPT !.op = "CursorOff", !.fail = f], pc)

DoCursorOn(f) ==
  /\ HasController
  /\ Commit(HD44780CursorOn(Cur(f)), [NoLast EXCEPT !.op = "CursorOn", !.fail = f], pc)

DoBlinkOff(f) ==
  /\ HasController
  /\ Commit(HD44780BlinkOff(Cur(f)), [NoLast EXCEPT !.op = "BlinkOff", !.fail = f], pc)

DoBlinkOn(f) ==
  /\ HasController
  /\ Commit(HD44780BlinkOn(Cur(f)), [NoLast EXCEPT !.op = "BlinkOn", !.fail = f], pc)

DoShiftLeft(f) ==
  /\ HasController
  /\ Commit(ShiftLeft(Cur(f)), [NoLast EXCEPT !.op = "ShiftLeft", !.fail = f], pc)

DoShiftRight(f) ==
  /\ HasController
  /\ Commit(ShiftRight(Cur(f)), [NoLast EXCEPT !.op = "ShiftRight", !.fail = f], pc)

DoHD44780Home(f) ==
  /\ IsController
  /\ Commit(HD44780Home(Cur(f)), [NoLast EXCEPT !.op = "HD44780.Home", !.fail = f], pc)

DoHD44780Clear(f) ==
  /\ IsController
  /\ Commit(HD44780Clear(Cur(f)), [NoLast EXCEPT !.op = "HD44780.Clear", !.fail = f], pc)

DoHD44780SetCursor(value, f) ==
  /\ IsController
  /\ Commit(HD44780SetCursor(Cur(f), value),
            [NoLast EXCEPT !.op = "HD44780.SetCursor", !.data = value, !.fail = f], pc)

DoBacklightOn(f) ==
  /\ HasController
  /\ Commit(BusBacklightOn(Cur(f)), [NoLast EXCEPT !.op = "BacklightOn", !.fail = f], pc)

DoBacklightOff(f) ==
  /\ HasController
  /\ Commit(BusBacklightOff(Cur(f)), [NoLast EXCEPT !.op = "BacklightOff", !.fail = f], pc)

DoHD44780Close(f) ==
  /\ IsController
  /\ Commit(HD44780Close(Cur(f)), [NoLast EXCEPT !.op = "HD44780.Close", !.fail = f],
            "closed")

\* Operations of the character display.
DoHome(f) ==
  /\ IsDisplay
  /\ Commit(Home(Cur(f)), [NoLast EXCEPT !.op = "Home", !.fail = f], pc)

DoClear(f) ==
  /\ IsDisplay
  /\ Commit(Clear(Cur(f)), [NoLast EXCEPT !.op = "Clear", !.fail = f], pc)

DoNewline(f) ==
  /\ IsDisplay
  /\ Commit(Newline(Cur(f)), [NoLast EXCEPT !.op = "Newline", !.fail = f], pc)

DoMessage(message, f) ==
  /\ IsDisplay
  /\ Commit(Message(Cur(f), message),
            [NoLast EXCEPT !.op = "Message", !.msg = message, !.fail = f], pc)

DoSetCursor(col, row, f) ==
  /\ IsDisplay
  /\ Commit(SetCursor(Cur(f), col, row),
            [NoLast EXCEPT !.op = "SetCursor", !.col = col, !.row = row, !.fail = f], pc)

DoClose(f) ==
  /\ IsDisplay
  /\ Commit(Close(Cur(f)), [NoLast EXCEPT !.op = "Close", !.fail = f], "closed")


\* Operations of the generic character display.
IsGeneric == ~pending /\ pc = "generic"

DoGenericNew(cols, rows, ltr) ==
  /\ pc = "new"
  /\ Commit(GenericNew(Cur(0), cols, rows, ltr),
            [NoLast EXCEPT !.op = "characterdisplay.New"], "generic")

DoGenericHome ==
  /\ IsGeneric
  /\ Commit(GenericHome(Cur(0)), [NoLast EXCEPT !.op = "Home"], pc)

DoGenericClear ==
  /\ IsGeneric
  /\ Commit(GenericClear(Cur(0)), [NoLast EXCEPT !.op = "Clear"], pc)

DoGenericNewline ==
  /\ IsGeneric
  /\ Commit(GenericNewline(Cur(0)), [NoLast EXCEPT !.op = "Newline"], pc)

DoGenericMessage(message) ==
  /\ IsGeneric
  /\ Commit(GenericMessage(Cur(0), message),
            [NoLast EXCEPT !.op = "Message", !.msg = message], pc)

DoGenericSetCursor(col, row) ==
  /\ IsGeneric
  /\ Commit(GenericSetCursor(Cur(0), col, row),
            [NoLast EXCEPT !.op = "SetCursor", !.col = col, !.row = row], pc)

\* ------------------------------------------------------------------------
\* Inputs
\* ------------------------------------------------------------------------
Seqs(S, n) == UNION {[1..k -> S] : k \in 0..n}

PinSets == {AllPins, SixPins}
PinMaps == {MJKDZPinMap, PCF8574PinMap}

\* Buses built by the caller and handed to New.
BareBuses ==
  {[kind |-> "gpio", pins |-> AllPins, PinMap |-> MJKDZPinMap, Backlight |-> FALSE],
   [kind |-> "i2c", pins |-> {}, PinMap |-> PCF8574PinMap, Backlight |-> FALSE]}

ModeLists == Seqs(ModeSetters, MaxModes)
ShortModeLists == Seqs(ModeSetters, 1)
EntryModeLists == Seqs(EntrySetters, MaxModes)

\* The setters handed to the SetMode calls whose transport may fail: for each
\* mode byte one that sets a bit, and for the entry byte one that clears it.
FaultModeSetters ==
  {"EntryIncrement", "EntryDecrement", "DisplayOff", "CursorOn", "TwoLine"}
FaultModeLists == Seqs(FaultModeSetters, MaxModes)

MessageBytes == {65, 66, NewlineByte}
Messages == Seqs(MessageBytes, MaxMsgLen)
ShortMessages == Seqs(MessageBytes, MaxShortMsgLen)

\* <<columns, rows>> of the displays built.
Geometries == {<<1, 1>>, <<2, 2>>, <<3, 5>>, <<16, 2>>, <<16, 5>>, <<20, 5>>}
TextGeometries == {<<1, 1>>, <<1, 2>>, <<2, 1>>, <<2, 2>>, <<3, 2>>, <<4, 2>>, <<16, 2>>}

ColArgs == {0, 1, Cols - 1, Cols}
RowArgs == (0 - 1)..MaxRowArg

\* ------------------------------------------------------------------------
\* SpecBus: every byte through the Write of each bus
\* ------------------------------------------------------------------------
NextBus ==
  \/ \E pins \in PinSets : DoNewGPIO4Bit(pins, <<>>, 0)
  \/ \E pm \in PinMaps : DoNewI2C(pm, <<>>, 0)
  \/ \E v \in Byte, f \in 0..MaxWriteFault : DoWriteChar(v, f)
  \/ \E v \in Byte, f \in 0..MaxWriteFault : DoWriteInstruction(v, f)
  \/ \E f \in 0..MaxWriteFault : DoBacklightOn(f)
  \/ \E f \in 0..MaxWriteFault : DoBacklightOff(f)
  \/ \E f \in 0..MaxDirFault : DoHD44780Close(f)
  \/ Return

SpecBus == Init /\ [][NextBus]_vars

\* ------------------------------------------------------------------------
\* SpecCtl: the controller, its constructors and its mode bytes
\* ------------------------------------------------------------------------
NextCtlOps ==
  \/ \E modes \in ShortModeLists : DoSetMode(modes, 0)
  \/ DoDisplayOff(0)
  \/ DoDisplayOn(0)
  \/ DoCursorOff(0)
  \/ DoCursorOn(0)
  \/ DoBlinkOff(0)
  \/ DoBlinkOn(0)
  \/ DoShiftLeft(0)
  \/ DoShiftRight(0)
  \/ DoHD44780Home(0)
  \/ DoHD44780Clear(0)
  \/ \E value \in {0, 64, 103} : DoHD44780SetCursor(value, 0)
  \/ DoBacklightOn(0)
  \/ DoBacklightOff(0)
  \/ \E f \in 0..MaxDirFault : DoHD44780Close(f)
  \/ Return

NextCtl ==
  \/ \E b \in BareBuses, modes \in ModeLists : DoNew(b, modes, 0)
  \/ \E pins \in PinSets, modes \in ModeLists : DoNewGPIO4Bit(pins, modes, 0)
  \/ \E pins \in PinSets, modes \in ShortModeLists, f \in 1..MaxDirFault :
       DoNewGPIO4Bit(pins, modes, f)
  \/ \E pm \in PinMaps, modes \in ModeLists : DoNewI2C(pm, modes, 0)
  \/ \E pm \in PinMaps, modes \in ShortModeLists, f \in 1..MaxDirFault :
       DoNewI2C(pm, modes, f)
  \/ NextCtlOps

SpecCtl == Init /\ [][NextCtl]_vars

\* ------------------------------------------------------------------------
\* SpecDisp: the character display, SetCursor with any arguments included
\* ------------------------------------------------------------------------
NextDisp ==
  \/ \E pins \in PinSets, g \in Geometries, modes \in EntryModeLists :
       DoNewCharacterDisplay(pins, g[1], g[2], modes, 0)
  \/ DoHome(0)
  \/ DoClear(0)
  \/ DoNewline(0)
  \/ \E message \in ShortMessages : DoMessage(message, 0)
  \/ \E col \in ColArgs, row \in RowArgs : DoSetCursor(col, row, 0)
  \/ \E f \in 0..MaxDirFault : DoClose(f)
  \/ Return

SpecDisp == Init /\ [][NextDisp]_vars

\* ------------------------------------------------------------------------
\* SpecText: the character display driven by Home, Clear, Newline, Message
\* ------------------------------------------------------------------------
NextText ==
  \/ \E pins \in PinSets, g \in TextGeometries, modes \in EntryModeLists :
       DoNewCharacterDisplay(pins, g[1], g[2], modes, 0)
  \/ DoHome(0)
  \/ DoClear(0)
  \/ DoNewline(0)
  \/ \E message \in Messages : DoMessage(message, 0)
  \/ Return

SpecText == Init /\ [][NextText]_vars

\* ------------------------------------------------------------------------
\* SpecMode: SetMode on a bus whose transport may fail at any call
\* ------------------------------------------------------------------------
NextMode ==
  \/ \E b \in BareBuses : DoNew(b, <<>>, 0)
  \/ \E modes \in FaultModeLists, f \in 0..MaxModeFault : DoSetMode(modes, f)
  \/ Return

SpecMode == Init /\ [][NextMode]_vars

\* ------------------------------------------------------------------------
\* SpecFault: every operation on a transport that may fail at any call
\* ------------------------------------------------------------------------
FaultEntryModes == {<<>>, <<"EntryDecrement">>}

NextFault ==
  \/ \E pins \in PinSets, modes \in FaultEntryModes, f \in 0..MaxOpFault :
       DoNewCharacterDisplay(pins, 2, 2, modes, f)
  \/ \E pm \in PinMaps, f \in 0..MaxOpFault : DoNewI2C(pm, <<>>, f)
  \/ \E v \in {1, 171}, f \in 0..MaxOpFault : DoWriteInstruction(v, f)
  \/ \E f \in 0..MaxOpFault : DoWriteChar(171, f)
  \/ \E f \in 0..MaxOpFault : DoSetMode(<<>>, f)
  \/ \E f \in 0..MaxOpFault : DoHD44780Home(f)
  \/ \E f \in 0..MaxOpFault : DoHD44780Clear(f)
  \/ \E f \in 0..MaxOpFault : DoHD44780SetCursor(64, f)
  \/ \E f \in 0..MaxOpFault : DoHome(f)
  \/ \E f \in 0..MaxOpFault : DoClear(f)
  \/ \E f \in 0..MaxOpFault : DoNewline(f)
  \/ \E message \in ShortMessages, f \in 0..MaxOpFault : DoMessage(message, f)
  \/ \E col \in 0..1, row \in 0..1, f \in 0..MaxOpFault : DoSetCursor(col, row, f)
  \/ Return

SpecFault == Init /\ [][NextFault]_vars

\* ------------------------------------------------------------------------
\* SpecLines: messages of several lines on displays of three rows
\* ------------------------------------------------------------------------
LineGeometries == {<<1, 3>>, <<2, 3>>, <<2, 2>>, <<3, 3>>}

NextLines ==
  \/ \E pins \in PinSets, g \in LineGeometries, modes \in EntryModeLists :
       DoNewCharacterDisplay(pins, g[1], g[2], modes, 0)
  \/ DoHome(0)
  \/ DoClear(0)
  \/ \E message \in Messages : DoMessage(message, 0)
  \/ Return

SpecLines == Init /\ [][NextLines]_vars

\* ------------------------------------------------------------------------
\* SpecMsgFault: Message on a transport that may fail at any call
\* ------------------------------------------------------------------------
FaultMessages == Seqs(MessageBytes, MaxFaultMsgLen)

NextMsgFault ==
  \/ \E pins \in PinSets, modes \in FaultEntryModes :
       DoNewCharacterDisplay(pins, 2, 2, modes, 0)
  \/ \E message \in FaultMessages, f \in 0..MaxMsgFault : DoMessage(message, f)
  \/ Return

SpecMsgFault == Init /\ [][NextMsgFault]_vars

\* ------------------------------------------------------------------------
\* SpecNew: construction of the character display with any mode setters
\* ------------------------------------------------------------------------
NextNew ==
  \/ \E pins \in PinSets, modes \in ModeLists :
       DoNewCharacterDisplay(pins, 16, 2, modes, 0)
  \/ DoClear(0)
  \/ Return

SpecNew == Init /\ [][NextNew]_vars

\* ------------------------------------------------------------------------
\* SpecGeneric: the generic character display on a fault-free Controller
\* ------------------------------------------------------------------------
NextGeneric ==
  \/ \E g \in TextGeometries, ltr \in BOOLEAN : DoGenericNew(g[1], g[2], ltr)
  \/ DoGenericHome
  \/ DoGenericClear
  \/ DoGenericNewline
  \/ \E message \in Messages : DoGenericMessage(message)
  \/ \E col \in ColArgs, row \in 0..MaxRowArg : DoGenericSetCursor(col, row)
  \/ Return

SpecGeneric == Init /\ [][NextGeneric]_vars

Spec == SpecText


\* ------------------------------------------------------------------------
\* Claims
\* ------------------------------------------------------------------------
LineWrite(l, v) == [line |-> l, op |-> "W", v |-> v]

EnablePulse == <<LineWrite("EN", 0), LineWrite("EN", 1), LineWrite("EN", 0)>>

\* A decoder that follows the levels of the lines and latches RS and D4..D7
\* at the end of each enable pulse (EN falling from high to low).
RECURSIVE LatchFrom(_, _, _)
LatchFrom(w, lv, out) ==
  IF w = <<>> THEN out
  ELSE
    LET e == Head(w)
        lv1 == IF e.op = "W" /\ e.line \in DOMAIN lv
               THEN [lv EXCEPT ![e.line] = e.v] ELSE lv
        fall == e.op = "W" /\ e.line = "EN" /\ lv["EN"] = 1 /\ e.v = 0
        half == [rs |-> lv["RS"],
                 nibble |-> lv["D4"] + 2 * lv["D5"] + 4 * lv["D6"] + 8 * lv["D7"]]
    IN LatchFrom(Tail(w), lv1, IF fall THEN Append(out, half) ELSE out)

LatchDecode(w) ==
  LatchFrom(w, [l \in {"RS", "EN", "D4", "D5", "D6", "D7"} |-> 0], <<>>)

LastRS == IF last.op = "WriteChar" THEN 1 ELSE 0

FaultFreeWrite ==
  /\ pending
  /\ last.op \in {"WriteChar", "WriteInstruction"}
  /\ last.fail = 0

\* C1: a fault-free Write of the 4-bit bus drives RS, then D4..D7 with bits
\* 4..7, then EN low/high/low, then D4..D7 with bits 0..3, then EN
\* low/high/low, and nothing else; a decoder latching at each enable pulse
\* captures two halves, high nibble first, that give back the byte and the
\* register-select, and so does the bus emulator.
C1_WriteOrder ==
  (FaultFreeWrite /\ bus.kind = "gpio") =>
    LET d == last.data
        hi == d \div 16
        lo == d % 16
        nibble(x) ==
          <<LineWrite("D4", x % 2), LineWrite("D5", (x \div 2) % 2),
            LineWrite("D6", (x \div 4) % 2), LineWrite("D7", (x \div 8) % 2)>>
    IN /\ err = "nil"
       /\ wire = <<LineWrite("RS", LastRS)>> \o nibble(hi) \o EnablePulse
                   \o nibble(lo) \o EnablePulse
       /\ LatchDecode(wire) = <<[rs |-> LastRS, nibble |-> hi],
                                [rs |-> LastRS, nibble |-> lo]>>
       /\ 16 * LatchDecode(wire)[1].nibble + LatchDecode(wire)[2].nibble = d
       /\ newGPIO4BitBusEmulator(wire) = <<[rs |-> LastRS, data |-> d]>>

\* C1 witness: byte 0xAB written with register-select on, decoded as 0xAB.
C1_Witness ==
  /\ FaultFreeWrite
  /\ bus.kind = "gpio"
  /\ last.op = "WriteChar"
  /\ last.data = 171
  /\ newGPIO4BitBusEmulator(wire) = <<[rs |-> 1, data |-> 171]>>


Instruction(x) == [rs |-> FALSE, data |-> x]

\* The halves an HD44780 behind an I2C expander latches: the bytes sent with
\* the EN bit set, read through the pin map pm.
I2CHalves(w, pm) ==
  LET q == SelectSeq(w, LAMBDA e : e.op = "W" /\ Bit(e.v, pm.EN) = 1)
  IN [i \in 1..Len(q) |->
        [rs |-> Bit(q[i].v, pm.RS),
         nibble |-> Bit(q[i].v, pm.D4) + 2 * Bit(q[i].v, pm.D5)
                    + 4 * Bit(q[i].v, pm.D6) + 8 * Bit(q[i].v, pm.D7)]]

\* Halves combined two by two, high nibble first.
RECURSIVE PairUp(_)
PairUp(h) ==
  IF Len(h) < 2 THEN <<>>
  ELSE <<[rs |-> h[1].rs, data |-> 16 * h[1].nibble + h[2].nibble]>>
       \o PairUp(SubSeq(h, 3, Len(h)))

\* The instructions the hardware captures from the transport calls of the
\* last operation, register-select as 0 or 1.
Captured ==
  IF bus.kind = "gpio" THEN newGPIO4BitBusEmulator(wire)
  ELSE PairUp(I2CHalves(wire, bus.PinMap))

Constructed ==
  /\ pending
  /\ last.op \in {"New", "NewGPIO4Bit", "NewI2C"}
  /\ last.fail = 0

\* C2: constructing a controller on a fault-free bus emits, with
\* register-select off, exactly 0x33, 0x32, the entry-mode instruction, the
\* display-mode instruction and the function-mode instruction, whatever the
\* bus and the list of mode setters.
C2_InitSequence ==
  Constructed =>
    /\ err = "nil"
    /\ eMode \in 0..3
    /\ dMode \in 0..7
    /\ fMode \in {4 * k : k \in 0..7}
    /\ calls = <<Instruction(51), Instruction(50), Instruction(4 + eMode),
                 Instruction(8 + dMode), Instruction(32 + fMode)>>
    /\ Captured = <<[rs |-> 0, data |-> 51], [rs |-> 0, data |-> 50],
                    [rs |-> 0, data |-> 4 + eMode], [rs |-> 0, data |-> 8 + dMode],
                    [rs |-> 0, data |-> 32 + fMode]>>
    /\ Values(wire, "Backlight") = <<>>

\* C2 witness: an I2C controller built with two setters.
C2_Witness ==
  /\ Constructed
  /\ last.op = "NewI2C"
  /\ last.modes = <<"EntryIncrement", "DisplayOn">>
  /\ Captured[3].data = 6
  /\ Captured[4].data = 12

\* C3: NewGPIO4Bit sets every non-nil line to output before the first write
\* on any line; when setting a direction fails, construction fails with the
\* error and no line is written.
C3_DirectionFirst ==
  (pending /\ last.op = "NewGPIO4Bit") =>
    LET W == {i \in 1..Len(wire) : wire[i].op = "W"}
        dirFails == last.fail \in 1..Cardinality(bus.pins)
    IN /\ \A i \in W : \A l \in bus.pins :
            \E j \in 1..(i - 1) : wire[j] = [line |-> l, op |-> "D", v |-> 1]
       /\ (W # {} => \A l \in bus.pins : pinDir[l] = "out")
       /\ (last.fail = 0 => (W # {} /\ err = "nil"))
       /\ (dirFails => (err = "error" /\ pc = "failed" /\ W = {}))
       /\ (pc = "failed" => ~ENABLED NextCtlOps)

\* C3 witness: the direction of the third line fails.
C3_Witness ==
  /\ pending
  /\ last.op = "NewGPIO4Bit"
  /\ last.fail = 3
  /\ err = "error"
  /\ Len(wire) = 2


\* Close called once on each line of the set pins, in the driver's order.
RECURSIVE CloseCalls(_, _)
CloseCalls(pins, i) ==
  IF i > 7 THEN <<>>
  ELSE (IF PinOrder[i] \in pins
        THEN <<[line |-> PinOrder[i], op |-> "C", v |-> 0]>> ELSE <<>>)
       \o CloseCalls(pins, i + 1)

\* C10: Close on a 4-bit-bus controller built with six or seven lines calls
\* Close exactly once on every line the bus owns, in the order RS, EN, D4,
\* D5, D6, D7, backlight, and returns success when no Close fails.
C10_CloseOwnedLines ==
  (pending /\ last.op = "HD44780.Close" /\ bus.kind = "gpio" /\ last.fail = 0) =>
    /\ err = "nil"
    /\ wire = CloseCalls(bus.pins, 1)
    /\ \A l \in AllPins : pinClosed[l] <=> l \in bus.pins


\* The entry-mode combinations the claims call left-to-right: increment
\* with shift off (2) and decrement with shift on (1).
LeftToRightMode == eMode \in {1, 2}

Direction == IF LeftToRightMode THEN 1 ELSE 0 - 1

StartColumn == IF LeftToRightMode THEN 0 ELSE Cols - 1

Returned(op) == pending /\ last.op = op /\ last.fail = 0

\* C4: isLeftToRight is true for (increment, shift off) and (decrement,
\* shift on) and false for the two other combinations, and it decides the
\* direction in which Message moves the column and the column Newline and
\* Clear choose.
C4_LeftToRight ==
  pc = "display" =>
    /\ eMode \in 0..3
    /\ isLeftToRight(Cur(0)) <=> LeftToRightMode
    /\ Returned("Newline") => p.col = StartColumn
    /\ Returned("Clear") => p.col = StartColumn
    /\ Returned("Message") =>
         \A i \in 1..Len(log) :
           /\ log[i].k = "cursor" => log[i].col = StartColumn
           /\ (log[i].k = "char" /\ i = Len(log)) =>
                (p.col = log[i].col + Direction /\ p.row = log[i].row)
           /\ (log[i].k = "char" /\ i < Len(log) /\ log[i + 1].k = "char") =>
                (log[i + 1].col = log[i].col + Direction
                 /\ log[i + 1].row = log[i].row)

\* C4 witness: two characters written on a (decrement, shift on) display,
\* the second one column to the right of the first.
C4_Witness ==
  /\ Returned("Message")
  /\ eMode = 1
  /\ Len(log) = 2
  /\ log[1].k = "char"
  /\ log[2].k = "char"
  /\ log[2].col = log[1].col + 1

\* C5: on a display with at least one column and one row, after any
\* sequence of Home, Clear, Newline and Message the logical cursor is inside
\* the display.
C5_CursorInside ==
  (pc = "display" /\ Cols >= 1 /\ Rows >= 1) =>
    (p.col \in 0..(Cols - 1) /\ p.row \in 0..(Rows - 1))

\* C5 witness: a Message on a right-to-left display wrote a character in
\* column 0 and ran off the left edge.
C5_Witness ==
  /\ Returned("Message")
  /\ ~LeftToRightMode
  /\ Rows >= 2
  /\ Len(log) = 2
  /\ log[1].k = "char"
  /\ log[1].col = 0
  /\ log[2].k = "cursor"
  /\ p.col = Cols - 1
  /\ p.row = log[1].row + 1

\* The bytes of a message that are not newline bytes.
RECURSIVE StripNewlines(_)
StripNewlines(msg) ==
  IF msg = <<>> THEN <<>>
  ELSE (IF Head(msg) = NewlineByte THEN <<>> ELSE <<Head(msg)>>)
       \o StripNewlines(Tail(msg))

RECURSIVE DataBytes(_)
DataBytes(cs) ==
  IF cs = <<>> THEN <<>>
  ELSE (IF Head(cs).rs THEN <<Head(cs).data>> ELSE <<>>) \o DataBytes(Tail(cs))

\* msg from byte i on against the display events lg from event j on: a
\* newline byte is one set-cursor and nothing else; any other byte is one
\* character write, after which the column has moved by one, followed by a
\* set-cursor exactly when the moved column is off an edge.
RECURSIVE MessageEvents(_, _, _, _)
MessageEvents(msg, lg, i, j) ==
  IF i > Len(msg) THEN j = Len(lg) + 1
  ELSE IF j > Len(lg) THEN FALSE
  ELSE IF msg[i] = NewlineByte
  THEN lg[j].k = "cursor" /\ MessageEvents(msg, lg, i + 1, j + 1)
  ELSE
    /\ lg[j].k = "char"
    /\ lg[j].b = msg[i]
    /\ LET c == lg[j].col + Direction
       IN IF c \notin 0..(Cols - 1)
          THEN /\ j + 1 <= Len(lg)
               /\ lg[j + 1].k = "cursor"
               /\ MessageEvents(msg, lg, i + 1, j + 2)
          ELSE /\ IF i = Len(msg)
                  THEN p.col = c /\ p.row = lg[j].row
                  ELSE msg[i + 1] # NewlineByte =>
                         /\ j + 1 <= Len(lg)
                         /\ lg[j + 1].k = "char"
                         /\ lg[j + 1].col = c
                         /\ lg[j + 1].row = lg[j].row
               /\ MessageEvents(msg, lg, i + 1, j + 1)

\* C6: a fault-free Message writes as data exactly the bytes of the message
\* that are not newline bytes, in order; a newline byte causes one
\* set-cursor instruction and no data write; any other byte moves the column
\* by one in the direction of the display; a set-cursor instruction is
\* emitted only for a newline byte or for a column that ran off an edge.
C6_MessageWrites ==
  Returned("Message") =>
    /\ err = "nil"
    /\ DataBytes(calls) = StripNewlines(last.msg)
    /\ MessageEvents(last.msg, log, 1, 1)
    /\ Len(calls) = Len(log)
    /\ \A j \in 1..Len(log) :
         IF log[j].k = "char"
         THEN calls[j] = [rs |-> TRUE, data |-> log[j].b]
         ELSE calls[j].rs = FALSE /\ calls[j].data \in 128..255
    /\ Captured = [j \in 1..Len(calls) |->
                     [rs |-> IF calls[j].rs THEN 1 ELSE 0, data |-> calls[j].data]]

\* C6 witness: "AB\nA" on a left-to-right display of four columns and two
\* rows, from the top left corner.
C6_Witness ==
  /\ Returned("Message")
  /\ last.msg = <<65, 66, NewlineByte, 65>>
  /\ Cols = 4
  /\ Rows = 2
  /\ log = <<[k |-> "char", b |-> 65, col |-> 0, row |-> 0],
             [k |-> "char", b |-> 66, col |-> 1, row |-> 0],
             [k |-> "cursor", b |-> 64, col |-> 0, row |-> 1],
             [k |-> "char", b |-> 65, col |-> 0, row |-> 1]>>
  /\ p = [col |-> 1, row |-> 1]

\* C7: a fault-free Clear emits 0x01, then the entry-, display- and
\* function-mode instructions with the mode bytes in memory, then, on a
\* right-to-left display only, one set-cursor to the last column of row 0;
\* the cursor is then at the start column of row 0, and a Message called
\* next writes its first character there.
C7_Clear ==
  Returned("Clear") =>
    /\ err = "nil"
    /\ calls = <<Instruction(1), Instruction(4 + eMode), Instruction(8 + dMode),
                 Instruction(32 + fMode)>>
               \o (IF LeftToRightMode THEN <<>> ELSE <<Instruction(128 + Cols - 1)>>)
    /\ Captured = [j \in 1..Len(calls) |-> [rs |-> 0, data |-> calls[j].data]]
    /\ p = [col |-> StartColumn, row |-> 0]
    /\ \A msg \in Messages :
         (msg # <<>> /\ msg[1] # NewlineByte) =>
           Message(Cur(0), msg).log[1] =
             [k |-> "char", b |-> msg[1], col |-> StartColumn, row |-> 0]

\* C7 witness: Clear on a right-to-left display of more than one column.
C7_Witness ==
  /\ Returned("Clear")
  /\ ~LeftToRightMode
  /\ Cols >= 2
  /\ Len(calls) = 5
  /\ calls[5] = Instruction(128 + Cols - 1)
  /\ p = [col |-> Cols - 1, row |-> 0]

\* The row offsets as the claims state them.
StatedRowOffset(cols, row) ==
  IF cols = 16
  THEN CASE row = 0 -> 0 [] row = 1 -> 64 [] row = 2 -> 16 [] OTHER -> 80
  ELSE CASE row = 0 -> 0 [] row = 1 -> 64 [] row = 2 -> 20 [] OTHER -> 84

SetDDRamAddr(x) == IF x >= 128 THEN x ELSE 128 + x

\* C8: SetCursor with a row outside 0..Rows-1, above or below, raises no
\* error and no fault and clamps the row to Rows-1; with a row inside the
\* range the cursor becomes (col, row); one set-DDRAM-address instruction
\* 0x80 | (col + rowOffset(row)) is emitted for the resulting row.
C8_SetCursorClamps ==
  (Returned("SetCursor") /\ Rows >= 1) =>
    LET r == IF last.row \in 0..(Rows - 1) THEN last.row ELSE Rows - 1
    IN /\ err = "nil"
       /\ p = [col |-> last.col, row |-> r]
       /\ calls = <<Instruction(SetDDRamAddr((last.col + StatedRowOffset(Cols, r)) % 256))>>

\* C9: rowOffset is 0, 64, 16, 80 for rows 0..3 of a 16-column display and
\* 0, 64, 20, 84 for rows 0..3 of any other display; a row above 3 gives the
\* value of row 3.
C9_RowOffset ==
  (Returned("SetCursor") /\ err = "nil") =>
    /\ lcdRowOffset(Cols, p.row) = StatedRowOffset(Cols, p.row)
    /\ Len(log) = 1
    /\ (log[1].b - last.col) % 256 = StatedRowOffset(Cols, p.row)

\* C9 witness: row 4 of a 16-column display gets the offset of row 3.
C9_Witness ==
  /\ Returned("SetCursor")
  /\ Cols = 16
  /\ last.row = 4
  /\ p.row = 4
  /\ last.col = 1
  /\ log[1].b = 81


\* What the claims say a mode setter does: the mode byte it works on, the
\* bit, and whether it sets or clears the bit.
StatedSetter(s) ==
  CASE s = "EntryDecrement" -> [byte |-> "e", bit |-> 2, on |-> FALSE]
    [] s = "EntryIncrement" -> [byte |-> "e", bit |-> 2, on |-> TRUE]
    [] s = "EntryShiftOff" -> [byte |-> "e", bit |-> 1, on |-> FALSE]
    [] s = "EntryShiftOn" -> [byte |-> "e", bit |-> 1, on |-> TRUE]
    [] s = "DisplayOff" -> [byte |-> "d", bit |-> 4, on |-> FALSE]
    [] s = "DisplayOn" -> [byte |-> "d", bit |-> 4, on |-> TRUE]
    [] s = "CursorOff" -> [byte |-> "d", bit |-> 2, on |-> FALSE]
    [] s = "CursorOn" -> [byte |-> "d", bit |-> 2, on |-> TRUE]
    [] s = "BlinkOff" -> [byte |-> "d", bit |-> 1, on |-> FALSE]
    [] s = "BlinkOn" -> [byte |-> "d", bit |-> 1, on |-> TRUE]
    [] s = "FourBitMode" -> [byte |-> "f", bit |-> 16, on |-> FALSE]
    [] s = "EightBitMode" -> [byte |-> "f", bit |-> 16, on |-> TRUE]
    [] s = "OneLine" -> [byte |-> "f", bit |-> 8, on |-> FALSE]
    [] s = "TwoLine" -> [byte |-> "f", bit |-> 8, on |-> TRUE]
    [] s = "Dots5x8" -> [byte |-> "f", bit |-> 4, on |-> FALSE]
    [] s = "Dots5x10" -> [byte |-> "f", bit |-> 4, on |-> TRUE]

\* bit is a power of two: x with that bit set or cleared.
WithBit(x, bit, on) ==
  LET has == (x \div bit) % 2 = 1
  IN IF on THEN (IF has THEN x ELSE x + bit) ELSE (IF has THEN x - bit ELSE x)

\* The mode bytes md = [e, d, f] after the setters of the list, in order.
RECURSIVE StatedModes(_, _)
StatedModes(md, modes) ==
  IF modes = <<>> THEN md
  ELSE LET s == StatedSetter(Head(modes))
       IN StatedModes([md EXCEPT ![s.byte] = WithBit(md[s.byte], s.bit, s.on)],
                      Tail(modes))

\* The three instructions of a flush of the mode bytes md.
ModeFlush(md) ==
  <<Instruction(4 + md.e), Instruction(8 + md.d), Instruction(32 + md.f)>>

\* Transport calls of one Write on the current bus.
CallsPerWrite == IF bus.kind = "gpio" THEN 15 ELSE 6

\* One SetMode: the setters are applied in order, whatever the transport
\* does; the emissions are the flush up to and including the one in which
\* transport call last.fail fails.
C11_Step ==
  (pending' /\ last'.op = "SetMode") =>
    LET exp == StatedModes([e |-> eMode, d |-> dMode, f |-> fMode], last'.modes)
        k == last'.fail
        i == ((k - 1) \div CallsPerWrite) + 1
    IN /\ eMode' = exp.e
       /\ dMode' = exp.d
       /\ fMode' = exp.f
       /\ IF k = 0 \/ k > 3 * CallsPerWrite
          THEN err' = "nil" /\ calls' = ModeFlush(exp)
          ELSE err' = "error" /\ calls' = SubSeq(ModeFlush(exp), 1, i)

\* After a SetMode, failed or not, a SetMode with no setters emits the mode
\* bytes in memory.
C11_Retry ==
  (pending /\ last.op = "SetMode") =>
    LET r == SetMode(Cur(0), <<>>)
    IN /\ r.err = "nil"
       /\ r.calls = ModeFlush([e |-> eMode, d |-> dMode, f |-> fMode])
       /\ r.eMode = eMode /\ r.dMode = dMode /\ r.fMode = fMode

\* C11: SetMode applies its setters in argument order to the mode bytes in
\* memory and then emits the entry, display and function instructions in
\* that order; when the i-th emission fails the later ones are not emitted
\* and the error is returned, the mode bytes keep what the setters produced,
\* and a later SetMode with no setters emits exactly those values.
C11_SetMode == [][C11_Step]_vars /\ []C11_Retry

\* C11 witness: the second emission of SetMode(EntryIncrement, CursorOn)
\* failed; both bits are set in memory.
C11_Witness ==
  /\ pending
  /\ last.op = "SetMode"
  /\ last.modes = <<"EntryIncrement", "CursorOn">>
  /\ err = "error"
  /\ Len(calls) = 2
  /\ calls[1] = Instruction(6)
  /\ eMode = 2
  /\ dMode = 2


I2CWrite(b) == [line |-> "I2C", op |-> "W", v |-> b, addr |-> 0]

\* The byte the claims say carries the half nib of a data byte through pin
\* map pm, with the register-select bit rs and the backlight bit bl (0 or 1).
StatedHalf(pm, nib, rs, bl) ==
  Bit(nib, 0) * 2 ^ pm.D4 + Bit(nib, 1) * 2 ^ pm.D5 + Bit(nib, 2) * 2 ^ pm.D6
  + Bit(nib, 3) * 2 ^ pm.D7 + rs * 2 ^ pm.RS + bl * 2 ^ pm.Backlight

BacklightBit == IF bus.Backlight THEN 1 ELSE 0

\* C12: a fault-free I2C Write is six single-byte writes to address 0x00,
\* h, h|EN, h, l, l|EN, l: h carries data bits 4..7 and l data bits 0..3 at
\* the D4..D7 positions of the pin map, both with the RS bit iff
\* register-select is set and the backlight bit iff the stored backlight
\* state is on; the RW bit is never set; the two bytes sent with EN set
\* decode to the byte and register-select written.
C12_I2CWrite ==
  (pending /\ last.op \in {"WriteChar", "WriteInstruction"} /\ bus.kind = "i2c"
   /\ err = "nil") =>
    LET pm == bus.PinMap
        h == StatedHalf(pm, last.data \div 16, LastRS, BacklightBit)
        l == StatedHalf(pm, last.data % 16, LastRS, BacklightBit)
        en == 2 ^ pm.EN
    IN /\ wire = <<I2CWrite(h), I2CWrite(h + en), I2CWrite(h),
                   I2CWrite(l), I2CWrite(l + en), I2CWrite(l)>>
       /\ \A j \in 1..Len(wire) : Bit(wire[j].v, pm.RW) = 0
       /\ PairUp(I2CHalves(wire, pm)) = <<[rs |-> LastRS, data |-> last.data]>>

\* C12 witness: 0xAB written as data through the PCF8574 map with the
\* backlight on; the second byte sent is 0xA0 | RS | backlight | EN.
C12_Witness ==
  /\ pending
  /\ last.op = "WriteChar"
  /\ last.data = 171
  /\ bus.kind = "i2c"
  /\ bus.PinMap = PCF8574PinMap
  /\ bus.Backlight
  /\ err = "nil"
  /\ Len(wire) = 6
  /\ wire[2].v = 173


\* Every byte the last call sent to the expander carries the stored
\* backlight state; a backlight call stores its state and issues one
\* zero-data command write, which on a fault-free bus is six bytes that
\* decode to the instruction 0x00.
C13_State ==
  (pending /\ bus.kind = "i2c") =>
    /\ \A j \in 1..Len(wire) :
         wire[j].op = "W" => Bit(wire[j].v, bus.PinMap.Backlight) = BacklightBit
    /\ last.op = "NewI2C" => ~bus.Backlight
    /\ last.op = "BacklightOn" => bus.Backlight
    /\ last.op = "BacklightOff" => ~bus.Backlight
    /\ (last.op \in {"BacklightOn", "BacklightOff"} /\ err = "nil") =>
         /\ Len(wire) = 6
         /\ PairUp(I2CHalves(wire, bus.PinMap)) = <<[rs |-> 0, data |-> 0]>>

\* Only BacklightOn and BacklightOff change the stored backlight state of a
\* constructed bus.
C13_Step ==
  (pc # "new" /\ last'.op \notin {"BacklightOn", "BacklightOff"}) =>
    bus'.Backlight = bus.Backlight

\* C13: on the I2C bus every byte sent carries the backlight bit of the most
\* recent BacklightOn or BacklightOff (off before the first one, construction
\* included), and each BacklightOn or BacklightOff itself sends one write of
\* the instruction 0x00 that already carries the new bit.
C13_BacklightBit == []C13_State /\ [][C13_Step]_vars

\* C13 witness: an instruction written through the MJKDZ map after
\* BacklightOn; the first byte sent is the backlight bit alone.
C13_Witness ==
  /\ pending
  /\ last.op = "WriteInstruction"
  /\ last.data = 1
  /\ bus.kind = "i2c"
  /\ bus.PinMap = MJKDZPinMap
  /\ bus.Backlight
  /\ err = "nil"
  /\ wire[1].v = 128


\* The operation recorded in l, run on machine m.
RunOp(l, m) ==
  CASE l.op = "WriteChar" -> WriteChar(m, l.data)
    [] l.op = "WriteInstruction" -> WriteInstruction(m, l.data)
    [] l.op = "SetMode" -> SetMode(m, l.modes)
    [] l.op = "HD44780.Home" -> HD44780Home(m)
    [] l.op = "HD44780.Clear" -> HD44780Clear(m)
    [] l.op = "HD44780.SetCursor" -> HD44780SetCursor(m, l.data)
    [] l.op = "Home" -> Home(m)
    [] l.op = "Clear" -> Clear(m)
    [] l.op = "Newline" -> Newline(m)
    [] l.op = "Message" -> Message(m, l.msg)
    [] l.op = "SetCursor" -> SetCursor(m, l.col, l.row)

WriteOps ==
  {"WriteChar", "WriteInstruction", "SetMode", "HD44780.Home", "HD44780.Clear",
   "HD44780.SetCursor", "Home", "Clear", "Newline", "Message", "SetCursor"}

\* An operation whose k-th transport call fails does what the same operation
\* does on a fault-free transport up to call k-1 and nothing more; the Write
\* in which the call fails is the last Write issued; the error is returned.
C14_Step ==
  (pending' /\ last'.op \in WriteOps /\ last'.fail > 0) =>
    LET ff == RunOp(last', Cur(0))
        k == last'.fail
    IN IF k > Len(ff.wire)
       THEN err' = "nil" /\ wire' = ff.wire /\ calls' = ff.calls
       ELSE /\ err' = "error"
            /\ wire' = SubSeq(ff.wire, 1, k - 1)
            /\ calls' = SubSeq(ff.calls, 1, ((k - 1) \div CallsPerWrite) + 1)

\* The same for construction, which sets the direction of its d lines
\* before its five Writes (and, for the display, switches the backlight line
\* after them).
C14_Init ==
  (pending /\ last.op \in {"NewI2C", "NewCharacterDisplay"} /\ last.fail > 0) =>
    LET d == Cardinality(bus.pins)
        k == last.fail
        per == IF last.op = "NewI2C" THEN 6 ELSE 15
        all == d + 5 * per + (IF "Backlight" \in bus.pins THEN 1 ELSE 0)
    IN IF k > all
       THEN err = "nil" /\ Len(wire) = all /\ Len(calls) = 5
       ELSE /\ err = "error"
            /\ pc = "failed"
            /\ Len(wire) = k - 1
            /\ Len(calls) = IF k <= d THEN 0
                            ELSE IF k > d + 5 * per THEN 5
                            ELSE ((k - d - 1) \div per) + 1

\* C14: when the k-th line write of a 4-bit Write or the k-th byte write of
\* an I2C Write fails, the Write returns the error, makes no further line
\* or byte write and does not retry; the operation that issued the Write
\* returns the same error and emits no further instruction.
C14_FailFast == [][C14_Step]_vars /\ []C14_Init

\* C14 witness: Message("AB") whose 20th line write failed: 'A' was
\* written, 'B' was cut after four line writes.
C14_Witness ==
  /\ pending
  /\ last.op = "Message"
  /\ last.msg = <<65, 66>>
  /\ last.fail = 20
  /\ err = "error"
  /\ Len(wire) = 19
  /\ Len(calls) = 2


\* C15: Close of the character display closes the bus of the controller and
\* then the backlight handle only if the display owns one; a display built
\* by NewCharacterDisplay owns none, so its Close completes without fault
\* and returns what closing the controller returned. Stated for displays
\* with all seven lines, whose controller closes without fault.
C15_DisplayClose ==
  (pending /\ last.op = "Close" /\ bus.pins = AllPins) =>
    /\ err = IF last.fail \in 1..7 THEN "error" ELSE "nil"
    /\ wire = SubSeq(CloseCalls(AllPins, 1), 1,
                     IF last.fail \in 1..7 THEN last.fail - 1 ELSE 7)


\* C16: when the Close of a line of the 4-bit bus fails, Close returns the
\* error, every line before it in the order RS, EN, D4, D5, D6, D7,
\* backlight has been closed exactly once and no line after it is closed.
C16_PartialClose ==
  (pending /\ last.op = "HD44780.Close" /\ bus.kind = "gpio"
   /\ last.fail \in 1..Cardinality(bus.pins)) =>
    /\ err = "error"
    /\ wire = SubSeq(CloseCalls(bus.pins, 1), 1, last.fail - 1)
    /\ \A i \in 1..7 : pinClosed[PinOrder[i]] <=> i < last.fail

\* C16 witness: the Close of D5 failed; RS, EN and D4 are closed, D5, D6,
\* D7 and the backlight line are not.
C16_Witness ==
  /\ pending
  /\ last.op = "HD44780.Close"
  /\ bus.pins = AllPins
  /\ last.fail = 4
  /\ err = "error"
  /\ Len(wire) = 3
  /\ pinClosed["D4"]
  /\ ~pinClosed["D5"]
  /\ ~pinClosed["Backlight"]


\* One Newline: the cursor goes to the start column of the next row, or of
\* the last row when it is already there, and the set-cursor instruction
\* for that position is the only instruction emitted.
C17_Step ==
  (pending' /\ last'.op = "Newline" /\ last'.fail = 0) =>
    LET r == IF p.row + 1 >= Rows THEN Rows - 1 ELSE p.row + 1
    IN /\ err' = "nil"
       /\ p' = [col |-> StartColumn, row |-> r]
       /\ calls' = <<Instruction(SetDDRamAddr(
                        (StartColumn + StatedRowOffset(Cols, r)) % 256))>>
       /\ Cols' = Cols /\ Rows' = Rows /\ eMode' = eMode

\* C17: Newline sets the cursor to (0, row+1) on a left-to-right display and
\* to (Cols-1, row+1) on a right-to-left one and emits the matching
\* set-cursor instruction; on the last row the row stays Rows-1.
C17_Newline == [][C17_Step]_vars

\* C17 witness: Newline on a right-to-left display of 16 columns and two
\* rows; the cursor is at the last column of the last row.
C17_Witness ==
  /\ Returned("Newline")
  /\ Rows = 2
  /\ Cols = 16
  /\ ~LeftToRightMode
  /\ p = [col |-> 15, row |-> 1]
  /\ calls = <<Instruction(207)>>


EntryInstructions == {Instruction(x) : x \in 4..7}

DisplayInstructions == {Instruction(x) : x \in 8..15}

FunctionInstructions ==
  {Instruction(32 + a + b + c) : a \in {0, 16}, b \in {0, 8}, c \in {0, 4}}

Toggles == {"DisplayOff", "DisplayOn", "CursorOff", "CursorOn", "BlinkOff", "BlinkOn"}

\* C18: every entry-mode instruction emitted lies in 0x04..0x07, every
\* display-mode instruction in 0x08..0x0F, every function-mode instruction
\* is 0x20 with a subset of {0x10, 0x08, 0x04}; a mode setter applied to the
\* controller emits nothing by itself, instructions appear only with a
\* flush.
C18_ModeInstructions ==
  /\ eMode \in 0..3
  /\ dMode \in 0..7
  /\ Instruction(32 + fMode) \in FunctionInstructions
  /\ (pending /\ err = "nil" /\ last.op = "SetMode") =>
       /\ Len(calls) = 3
       /\ calls[1] \in EntryInstructions
       /\ calls[2] \in DisplayInstructions
       /\ calls[3] \in FunctionInstructions
  /\ (pending /\ err = "nil" /\ last.op \in {"New", "NewGPIO4Bit", "NewI2C"}) =>
       /\ Len(calls) = 5
       /\ calls[3] \in EntryInstructions
       /\ calls[4] \in DisplayInstructions
       /\ calls[5] \in FunctionInstructions
  /\ (pending /\ err = "nil" /\ last.op \in Toggles) =>
       /\ Len(calls) = 1
       /\ calls[1] \in DisplayInstructions
  /\ pc = "controller" =>
       \A s \in ModeSetters :
         LET r == ModeSetter(Cur(0), s)
         IN r.calls = <<>> /\ r.wire = <<>> /\ r.n = 0 /\ r.err = "nil"

\* C18 witness: a flush with every function flag set emits 0x3C.
C18_Witness ==
  /\ pending
  /\ last.op = "SetMode"
  /\ err = "nil"
  /\ fMode = 28
  /\ calls[3] = Instruction(60)
  /\ calls[1] = Instruction(7)

C19_Step ==
  (~pending /\ pending' /\ last'.op \in Toggles) =>
    LET t == StatedSetter(last'.op)
    IN /\ t.byte = "d"
       /\ dMode' = WithBit(dMode, t.bit, t.on)
       /\ eMode' = eMode
       /\ fMode' = fMode
       /\ err' = "nil"
       /\ calls' = <<Instruction(8 + dMode')>>

\* C19: DisplayOn, DisplayOff, CursorOn, CursorOff, BlinkOn and BlinkOff each
\* change only their own bit of the display-mode byte, leave the entry-mode
\* and function-mode bytes and the other two display bits as they were, and
\* emit exactly one instruction, 0x08 | display byte.
C19_Toggles == [][C19_Step]_vars

\* C19 witness: CursorOn has set bit 0x02 of a display byte that had display
\* and blink set, with non-default entry and function bytes.
C19_Witness ==
  /\ pending
  /\ last.op = "CursorOn"
  /\ err = "nil"
  /\ dMode = 7
  /\ eMode = 1
  /\ fMode = 8
  /\ calls = <<Instruction(15)>>

\* The step of the controller's address counter after a data write: +1 with
\* the increment bit of the entry mode set, -1 with it clear.
AddressStep == IF Bit(eMode, 1) = 1 THEN 1 ELSE -1

\* col + rowOffset(row) of the logical cursor recorded with a display event.
LogicalAddress(e) == e.col + StatedRowOffset(Cols, e.row)

\* C20: immediately before every character write the controller's address
\* counter equals col + rowOffset(row) of the logical cursor. Within one
\* fault-free Message: a character written right after a set-cursor is at
\* the address that instruction set, and a character written right after
\* another character is at the previous address moved by the step of the
\* address counter.
C20_AddressCounter ==
  Returned("Message") =>
    \A j \in 1..(Len(log) - 1) :
      log[j + 1].k = "char" =>
        IF log[j].k = "cursor"
        THEN LogicalAddress(log[j + 1]) = log[j].b
        ELSE LogicalAddress(log[j + 1]) = LogicalAddress(log[j]) + AddressStep

\* The lines of a message: the runs of bytes between newline bytes.
RECURSIVE LineLengths(_, _)
LineLengths(msg, n) ==
  IF msg = <<>> THEN <<n>>
  ELSE IF Head(msg) = NewlineByte THEN <<n>> \o LineLengths(Tail(msg), 0)
  ELSE LineLengths(Tail(msg), n + 1)

\* At most rows lines of 1 to cols bytes each, separated by single newline
\* bytes.
LinesFit(msg, cols, rows) ==
  LET ls == LineLengths(msg, 0)
  IN /\ Len(ls) <= rows
     /\ \A k \in 1..Len(ls) : ls[k] \in 1..cols

\* For each byte of the message that is not a newline byte, in order, the
\* number of the line it belongs to, the first line being line k.
RECURSIVE LineNumbers(_, _)
LineNumbers(msg, k) ==
  IF msg = <<>> THEN <<>>
  ELSE IF Head(msg) = NewlineByte THEN LineNumbers(Tail(msg), k + 1)
  ELSE <<k>> \o LineNumbers(Tail(msg), k)

\* The logical row at each character write of the last operation, in order.
WriteRows ==
  LET cs == SelectSeq(log, LAMBDA e : e.k = "char")
  IN [j \in 1..Len(cs) |-> cs[j].row]

\* The last operation was a fault-free Message of lines that fit, on a
\* left-to-right display, started at (0,0).
LinesFromOrigin ==
  /\ Returned("Message")
  /\ LeftToRightMode
  /\ LinesFit(last.msg, Cols, Rows)
  /\ log[1].k = "char"
  /\ log[1].col = 0
  /\ log[1].row = 0

\* C21: on a left-to-right display starting at (0,0), a message of at most
\* Rows lines of 1 to Cols bytes each, separated by single newline bytes,
\* writes every byte of line k while the logical row is k.
C21_LineRows == LinesFromOrigin => WriteRows = LineNumbers(last.msg, 0)

\* The Write of a character.
CharWrite(b) == [rs |-> TRUE, data |-> b]

\* Message failed in the write of byte i of msg: the Writes issued are those
\* of the fault-free Message of the bytes before i followed by the write of
\* byte i, no transport call follows the failing one, and the cursor is
\* where that fault-free Message leaves it.
FailedAtByte(msg, i) ==
  LET before == Message(Cur(0), SubSeq(msg, 1, i - 1))
  IN /\ msg[i] # NewlineByte
     /\ calls' = Append(before.calls, CharWrite(msg[i]))
     /\ Len(wire') = last'.fail - 1
     /\ p' = [col |-> before.col, row |-> before.row]

C22_Step ==
  (/\ ~pending /\ pending'
   /\ last'.op = "Message"
   /\ err' # "nil"
   /\ calls' # <<>>
   /\ calls'[Len(calls')].rs) =>
    /\ err' = "error"
    /\ \E i \in 1..Len(last'.msg) : FailedAtByte(last'.msg, i)

\* C22: if writing the i-th byte of a message fails, Message returns that
\* error, no later byte is written and no later newline or set-cursor is
\* issued, and the logical cursor is where it was before the failing byte.
C22_MessageAbort == [][C22_Step]_vars

\* C22 witness: "ABA" on a left-to-right display of two columns, the write of
\* 'B' failing: 'A' is written, the cursor stays at column 1.
C22_Witness ==
  /\ pending
  /\ last.op = "Message"
  /\ last.msg = <<65, 66, 65>>
  /\ last.fail > 0
  /\ err = "error"
  /\ calls = <<CharWrite(65), CharWrite(66)>>
  /\ log[1].col = 0
  /\ p = [col |-> 1, row |-> 0]

\* The mode bytes the defaults of NewCharacterDisplay give: entry increment,
\* display on, every other bit clear.
StatedDefaults == [e |-> 2, d |-> 4, f |-> 0]

\* The mode bytes of the controller, by name.
ModeBytes == [e |-> eMode, d |-> dMode, f |-> fMode]

HasBit(x, bit) == (x \div bit) % 2 = 1

\* The positions of the list modes whose setter writes the bit of setter s.
SettersOf(modes, s) ==
  {i \in 1..Len(modes) :
     /\ StatedSetter(modes[i]).byte = StatedSetter(s).byte
     /\ StatedSetter(modes[i]).bit = StatedSetter(s).bit}

Last(S) == CHOOSE i \in S : \A j \in S : j <= i

\* The bit of setter s is what the last setter of the caller's list for that
\* bit says, and the default when the list has none.
LastSetterWins(modes, s) ==
  LET t == StatedSetter(s)
      at == SettersOf(modes, s)
  IN HasBit(ModeBytes[t.byte], t.bit) =
       IF at = {} THEN HasBit(StatedDefaults[t.byte], t.bit)
       ELSE StatedSetter(modes[Last(at)]).on

\* C23: NewCharacterDisplay applies its defaults first and the caller's
\* setters after them: for every mode bit the last setter of the caller's
\* list wins over the default; with no caller setters the three mode
\* instructions of the construction are 0x06, 0x0C and 0x20 and the display
\* is left-to-right.
C23_Defaults ==
  Returned("NewCharacterDisplay") =>
    /\ err = "nil"
    /\ \A s \in ModeSetters : LastSetterWins(last.modes, s)
    /\ SubSeq(calls, 3, 5) = ModeFlush(ModeBytes)
    /\ last.modes = <<>> =>
         /\ SubSeq(calls, 3, 5) = <<Instruction(6), Instruction(12), Instruction(32)>>
         /\ LeftToRightMode
         /\ isLeftToRight(Cur(0))

\* C23 witness: EntryDecrement and DisplayOff from the caller override the
\* defaults: the construction emits 0x04, 0x08, 0x20.
C23_Witness ==
  /\ Returned("NewCharacterDisplay")
  /\ last.modes = <<"EntryDecrement", "DisplayOff">>
  /\ eMode = 0
  /\ dMode = 0
  /\ SubSeq(calls, 3, 5) = <<Instruction(4), Instruction(8), Instruction(32)>>

\* The character writes, each with the cursor it was made at, and the
\* set-cursor positions of a display log, in order.
Positions(lg) ==
  LET es == SelectSeq(lg, LAMBDA e : e.k \in {"char", "cursor"})
  IN [j \in 1..Len(es) |->
        IF es[j].k = "cursor" THEN [es[j] EXCEPT !.b = 0] ELSE es[j]]

\* The hd44780 display with the fields of the current state on a 4-bit bus
\* with all its lines.
SameDisplay ==
  [Cur(0) EXCEPT
     !.bus = [kind |-> "gpio", pins |-> AllPins, PinMap |-> MJKDZPinMap,
              Backlight |-> FALSE]]

DisplayOps == {"Home", "Clear", "Message", "Newline", "SetCursor"}

\* A call on the generic display leaves the cursor, and hands its Controller
\* the character writes and set-cursor positions, that the same call on the
\* hd44780 display of the same geometry, direction and cursor does.
C24_Step ==
  (~pending /\ pending' /\ pc = "generic" /\ last'.op \in DisplayOps) =>
    LET h == RunOp(last', SameDisplay)
    IN /\ h.err = "nil"
       /\ err' = "nil"
       /\ p' = [col |-> h.col, row |-> h.row]
       /\ Positions(log') = Positions(h.log)

\* Both displays start at the same cursor: New of the generic display leaves
\* the cursor NewCharacterDisplay leaves for the same geometry and direction.
C24_Start ==
  (pending /\ last.op = "characterdisplay.New") =>
    LET h == NewCharacterDisplay(Cur(0), AllPins, Cols, Rows,
               IF LeftToRightMode THEN <<>> ELSE <<"EntryDecrement">>)
    IN /\ h.err = "nil"
       /\ err = "nil"
       /\ isLeftToRight(h) = ControllerIsLeftToRight(Cur(0))
       /\ p = [col |-> h.col, row |-> h.row]
       /\ p = [col |-> 0, row |-> 0]

\* C24: for the same geometry, direction and sequence of Home, Clear,
\* Message, Newline and SetCursor calls (rows and columns non-negative) on
\* fault-free controllers, the generic display and the hd44780 display hold
\* the same logical cursor after every call and issue the same character
\* writes and set-cursor positions.
C24_SameCursor == [][C24_Step]_vars /\ []C24_Start

\* C24 witness: "A\nB" on a generic right-to-left display of two columns and
\* two rows, from the cursor Clear leaves: 'A' at (1,0), the newline to
\* (1,1), 'B' at (1,1).
C24_Witness ==
  /\ pc = "generic"
  /\ pending
  /\ last.op = "Message"
  /\ last.msg = <<65, NewlineByte, 66>>
  /\ Cols = 2
  /\ Rows = 2
  /\ ~LeftToRightMode
  /\ Positions(log) = <<[k |-> "char", b |-> 65, col |-> 1, row |-> 0],
                        [k |-> "cursor", b |-> 0, col |-> 1, row |-> 1],
                        [k |-> "char", b |-> 66, col |-> 1, row |-> 1]>>
  /\ p = [col |-> 0, row |-> 1]

====
